---- MODULE Spec2Model ----
(***************************************************************************)
(* A model of src/src/ffi.rs, the bridge between plugin logic written in   *)
(* Rust and the LADSPA host ABI: the process-wide descriptor registry      *)
(* (ladspa_descriptor, global_destruct, free_descriptor) and the           *)
(* per-instance handle (instantiate, connect_port, run, activate,          *)
(* deactivate, cleanup).                                                   *)
(*                                                                         *)
(* Memory is modelled explicitly.  A pointer is a record                   *)
(* [space, off]: "null", "heap" (a block allocated by ladspa_descriptor,   *)
(* off its number), "inst" (a block allocated by instantiate), "host" (a   *)
(* buffer the host owns) or "uninit" (the content of memory nobody wrote). *)
(* malloc is taken to succeed and to return a block never returned         *)
(* before: heap and instances are the sequences of all blocks ever         *)
(* allocated by the two callers, and each block counts how often it was    *)
(* freed.                                                                  *)
(***************************************************************************)
EXTENDS Integers, Sequences, FiniteSets, TLC

VARIABLES
    catalog,          \* the external get_ladspa_descriptor: [exhausts, size]
    init_done,        \* static mut init_done
    num_descriptors,  \* static mut num_descriptors
    descriptors,      \* static mut descriptors: Option<*mut *mut Descriptor>
    heap,             \* the blocks ladspa_descriptor allocated, in order
    instances,        \* the blocks instantiate allocated, in order
    atexit_handlers,  \* how often libc::atexit(global_destruct) was called
    free_log,         \* the pointers given to free, in call order
    handles,          \* the Handle records, by the number of their block
    aborted,          \* a panic ended the process
    exited,           \* the process exited and its atexit handlers ran
    ub,               \* undefined behaviour executed so far (a set of tags)
    returned,         \* history: index -> the non-null pointers returned for it
    probe,            \* the enumerating host: the next index it will probe
    last              \* the latest ABI call: its arguments, result and what
                      \* it handed to the plugin logic

vars == <<catalog, init_done, num_descriptors, descriptors, heap, instances,
          atexit_handlers, free_log, handles, aborted, exited, ub,
          returned, probe, last>>

----------------------------------------------------------------------------
(* Program constants.                                                      *)

MAX_DESCRIPTORS == 32

PORT_INPUT == 1
PORT_OUTPUT == 2
PORT_CONTROL == 4
PORT_AUDIO == 8

HINT_BOUNDED_BELOW == 1
HINT_BOUNDED_ABOVE == 2

(* Bounds of the model.                                                    *)

MaxIndex == 2           \* the host passes indices 0..MaxIndex
MaxCatalog == 2         \* catalogs of Spec hold 0..MaxCatalog plugins
MaxEnumCatalog == 34    \* catalogs of SpecEnum hold up to this many plugins
MaxProbe == 36          \* the enumerating host gives up at this index
NumHostBufs == 2        \* distinct buffers the host connects
MaxInstantiations == 1  \* handles the host creates in one run
MaxPortNum == 3         \* the host passes port numbers 0..MaxPortNum

SampleCounts == {0, 64, 128}
SampleRates == {44100}

----------------------------------------------------------------------------
(* Pointers.                                                               *)

NULL == [space |-> "null", off |-> 0]
Uninit == [space |-> "uninit", off |-> 0]
HeapPtr(n) == [space |-> "heap", off |-> n]
InstPtr(n) == [space |-> "inst", off |-> n]
HostPtr(k) == [space |-> "host", off |-> k]
HostBufs == {HostPtr(k) : k \in 1..NumHostBufs}

None == [some |-> FALSE, val |-> 0]
Some(v) == [some |-> TRUE, val |-> v]
UnwrapOr(o, d) == IF o.some THEN o.val ELSE d

(* x | y on naturals.                                                      *)
RECURSIVE BitOr(_, _)
BitOr(x, y) ==
    IF x = 0 THEN y
    ELSE IF y = 0 THEN x
    ELSE (IF x % 2 = 1 \/ y % 2 = 1 THEN 1 ELSE 0) + 2 * BitOr(x \div 2, y \div 2)

RECURSIVE Concat(_)
Concat(ss) == IF ss = <<>> THEN <<>> ELSE Head(ss) \o Concat(Tail(ss))

----------------------------------------------------------------------------
(* The catalog: the plugin descriptions get_ladspa_descriptor returns.     *)
(* Strings are sequences of bytes.                                         *)

PortKinds == {"AudioInput", "AudioOutput", "ControlInput", "ControlOutput", "Invalid"}

(* super::PortDescriptor as i32                                            *)
PortDescBits(kind) ==
    CASE kind = "AudioInput"    -> PORT_AUDIO + PORT_INPUT
      [] kind = "AudioOutput"   -> PORT_AUDIO + PORT_OUTPUT
      [] kind = "ControlInput"  -> PORT_CONTROL + PORT_INPUT
      [] kind = "ControlOutput" -> PORT_CONTROL + PORT_OUTPUT
      [] OTHER                  -> 0

Port(name, kind, hint, default, lo, hi) ==
    [name |-> name, desc |-> kind, hint |-> hint, default |-> default,
     lower_bound |-> lo, upper_bound |-> hi]

PortsOf(i) ==
    CASE i % 3 = 0 ->
           << Port(<<103>>, "ControlInput", Some(16), Some(64), Some(0), Some(2)),
              Port(<<105, 110>>, "AudioInput", None, None, None, None),
              Port(<<109>>, "ControlOutput", None, None, None, Some(1)) >>
      [] i % 3 = 1 ->
           << Port(<<111, 117, 116>>, "AudioOutput", None, None, None, None),
              Port(<<120>>, "Invalid", None, None, None, None) >>
      [] OTHER ->
           << Port(<<105, 110>>, "AudioInput", None, None, None, None),
              Port(<<111, 117, 116>>, "AudioOutput", None, None, None, None) >>

PluginAt(i) ==
    [unique_id |-> 400 + i,
     label |-> <<108, 48 + (i % 10)>>,
     name |-> <<110, 48 + (i % 10)>>,
     maker |-> <<109>>,
     copyright |-> <<99>>,
     properties |-> (i % 2) * 4,
     ports |-> PortsOf(i)]

(* get_ladspa_descriptor(index): Some(plugin) below the catalog's end,     *)
(* None from there on.                                                     *)
get_ladspa_descriptor(index) ==
    IF ~catalog.exhausts \/ index < catalog.size
    THEN Some(PluginAt(index))
    ELSE None

----------------------------------------------------------------------------
(* The allocator.                                                          *)

Block(kind, val) == [kind |-> kind, frees |-> 0, val |-> val]

(* alloc: the new block is the next of the heap.                           *)
Alloc(h, blk) == Append(h, blk)
NextPtr(h) == HeapPtr(Len(h) + 1)

Count(seq, x) == Cardinality({k \in DOMAIN seq : seq[k] = x})

(* free, for every pointer of ptrs in turn: what it does to the blocks h   *)
(* of one space.                                                           *)
FreeAll(h, space, ptrs) ==
    [a \in DOMAIN h |->
        [h[a] EXCEPT !.frees = @ + Count(ptrs, [space |-> space, off |-> a])]]

make_c_str_unterminated(s) == Block("c_str", s)

(* make_c_str: s.len() + 1 bytes, the bytes of s and the terminator.       *)
make_c_str(s) == Block("c_str", Append(s, 0))

----------------------------------------------------------------------------
(* The descriptor table: MAX_DESCRIPTORS pointers, uninitialised at first. *)

EmptyTable == [k \in 0..(MAX_DESCRIPTORS - 1) |-> Uninit]

(* *descriptors.unwrap().offset(off)                                       *)
TableRead(h, tbl, off) ==
    IF off \in DOMAIN h[tbl.off].val THEN h[tbl.off].val[off] ELSE Uninit

(* *descriptors.unwrap().offset(off) = p; a write past the end of the      *)
(* table lands outside the block.                                          *)
TableWrite(h, tbl, off, p) ==
    IF off \in DOMAIN h[tbl.off].val
    THEN [h EXCEPT ![tbl.off].val = [@ EXCEPT ![off] = p]]
    ELSE h

----------------------------------------------------------------------------
(* ladspa_descriptor.  The registry is the record                          *)
(* [init_done, num_descriptors, descriptors, heap, atexit_handlers, ub].   *)

Registry ==
    [init_done |-> init_done, num_descriptors |-> num_descriptors,
     descriptors |-> descriptors, heap |-> heap,
     atexit_handlers |-> atexit_handlers, ub |-> ub]

InitialiseWithoutFlag(R) ==
    IF ~R.init_done
    THEN [R EXCEPT !.atexit_handlers = @ + 1,
                   !.descriptors = Some(NextPtr(R.heap)),
                   !.heap = Alloc(@, Block("table", EmptyTable))]
    ELSE R

(* if !init_done { atexit(global_destruct); descriptors = Some(alloc(..)); *)
(*                 init_done = true; }                                     *)
Initialise(R) ==
    IF ~R.init_done
    THEN [R EXCEPT !.atexit_handlers = @ + 1,
                   !.descriptors = Some(NextPtr(R.heap)),
                   !.heap = Alloc(@, Block("table", EmptyTable)),
                   !.init_done = TRUE]
    ELSE R

IsCachedInclusive(index, n) == index <= n

(* if index < num_descriptors                                              *)
IsCached(index, n) == index < n

(* The range hint of one port.                                             *)
RangeHint(port) ==
    [hint_descriptor |->
        BitOr(BitOr(UnwrapOr(port.hint, 0), UnwrapOr(port.default, 0)),
              BitOr(IF port.lower_bound.some THEN HINT_BOUNDED_BELOW ELSE 0,
                    IF port.upper_bound.some THEN HINT_BOUNDED_ABOVE ELSE 0)),
     lower_bound |-> UnwrapOr(port.lower_bound, 0),
     upper_bound |-> UnwrapOr(port.upper_bound, 0)]

(* The blocks one descriptor is made of, in the order they are allocated,  *)
(* the first of them at block number d: the record, the four strings, the  *)
(* three per-port arrays, the port names and the retained plugin.          *)
DescriptorBlocks(d, plugin) ==
    LET n == Len(plugin.ports)
        desc ==
            [unique_id |-> plugin.unique_id,
             label |-> HeapPtr(d + 1),
             properties |-> plugin.properties,
             name |-> HeapPtr(d + 2),
             maker |-> HeapPtr(d + 3),
             copyright |-> HeapPtr(d + 4),
             port_count |-> n,
             port_descriptors |-> HeapPtr(d + 5),
             port_names |-> HeapPtr(d + 6),
             port_range_hints |-> HeapPtr(d + 7),
             implementation_data |-> HeapPtr(d + 8 + n),
             instantiate |-> "instantiate",
             connect_port |-> "connect_port",
             run |-> "run",
             cleanup |-> "cleanup",
             run_adding |-> "null",
             set_run_adding_gain |-> "null",
             activate |-> "activate",
             deactivate |-> "deactivate"]
    IN << Block("descriptor", desc),
          make_c_str(plugin.label),
          make_c_str(plugin.name),
          make_c_str(plugin.maker),
          make_c_str(plugin.copyright),
          Block("port_descriptors",
                 [i \in 1..n |-> PortDescBits(plugin.ports[i].desc)]),
          Block("port_names", [i \in 1..n |-> HeapPtr(d + 7 + i)]),
          Block("port_range_hints",
                 [i \in 1..n |-> RangeHint(plugin.ports[i])]) >>
       \o [i \in 1..n |-> make_c_str(plugin.ports[i].name)]
       \o << Block("implementation_data", plugin) >>

CapacityExceededStrict(n) == n > MAX_DESCRIPTORS

(* if num_descriptors >= MAX_DESCRIPTORS { panic!(..) }                    *)
CapacityExceeded(n) == n >= MAX_DESCRIPTORS

(* The offset of the table the new descriptor is stored at.                *)
StoreSlot(index, n) == n

NoPluginCounted(R) ==
    [reg |-> [R EXCEPT !.num_descriptors = @ + 1], ret |-> NULL, panic |-> FALSE]

(* None => ptr::null_mut()                                                 *)
NoPlugin(R) == [reg |-> R, ret |-> NULL, panic |-> FALSE]

(* Some(plugin) => { .. }                                                  *)
BuildDescriptor(R, index, plugin) ==
    LET ptr == NextPtr(R.heap)
        built == R.heap \o DescriptorBlocks(ptr.off, plugin)
        slot == StoreSlot(index, R.num_descriptors)
        inside == slot \in 0..(MAX_DESCRIPTORS - 1)
        R2 == [R EXCEPT !.heap = TableWrite(built, R.descriptors.val, slot, ptr),
                        !.num_descriptors = @ + 1,
                        !.ub = IF inside THEN @ ELSE @ \cup {"table write out of bounds"}]
    IN [reg |-> R2, ret |-> ptr, panic |-> CapacityExceeded(R2.num_descriptors)]

ladspa_descriptor(R0, index) ==
    LET R == Initialise(R0)
        plugin == get_ladspa_descriptor(index)
    IN IF IsCached(index, R.num_descriptors)
       THEN [reg |-> R, ret |-> TableRead(R.heap, R.descriptors.val, index),
             panic |-> FALSE]
       ELSE IF plugin.some
            THEN BuildDescriptor(R, index, plugin.val)
            ELSE NoPlugin(R)

----------------------------------------------------------------------------
(* global_destruct and free_descriptor.                                    *)

free_descriptor_without_names(h, ptr) ==
    LET desc == h[ptr.off].val
    IN << desc.label, desc.name, desc.maker, desc.copyright,
          desc.port_descriptors, desc.port_names, desc.port_range_hints,
          desc.implementation_data, ptr >>

free_descriptor_record_first(h, ptr) ==
    LET desc == h[ptr.off].val
    IN << ptr, desc.label, desc.name, desc.maker, desc.copyright,
          desc.port_descriptors >>
       \o [i \in 1..desc.port_count |-> h[desc.port_names.off].val[i]]
       \o << desc.port_names, desc.port_range_hints,
             desc.implementation_data >>

(* The pointers free_descriptor(ptr) frees, in order.                      *)
free_descriptor(h, ptr) ==
    LET desc == h[ptr.off].val
    IN << desc.label, desc.name, desc.maker, desc.copyright,
          desc.port_descriptors >>
       \o [i \in 1..desc.port_count |-> h[desc.port_names.off].val[i]]
       \o << desc.port_names, desc.port_range_hints,
             desc.implementation_data, ptr >>

(* The pointers global_destruct frees, in order.                           *)
global_destruct(R) ==
    IF ~R.init_done
    THEN <<>>
    ELSE Concat([k \in 1..R.num_descriptors |->
                    free_descriptor(R.heap, TableRead(R.heap, R.descriptors.val, k - 1))])
         \o << R.descriptors.val >>

(* exit(): every registered handler runs, once per registration.           *)
RECURSIVE RunAtExit(_, _)
RunAtExit(k, R) == IF k = 0 THEN <<>> ELSE global_destruct(R) \o RunAtExit(k - 1, R)

----------------------------------------------------------------------------
(* The handle.  A Handle record is                                         *)
(*   descriptor: the retained plugin description (implementation_data),    *)
(*   plugin:     the boxed plugin logic,                                   *)
(*   port_map:   VecMap<PortConnection>, a function on the keys inserted,  *)
(*   ports:      Vec<&PortConnection>, each reference the key of the       *)
(*               port_map slot it points into,                             *)
(* and, for the model, live (cleanup has not run), dropped (how often the  *)
(* port_map and the ports vector were dropped) and supplied (the address   *)
(* the host passed last for each port).                                    *)

NoKeys == [k \in {} |-> NULL]

(* The Handle record instantiate writes.                                   *)
NewHandle(rust_desc, rust_plugin) ==
    [descriptor |-> rust_desc,
     plugin |-> rust_plugin,
     port_map |-> NoKeys,
     ports |-> <<>>,
     live |-> TRUE,
     dropped |-> [port_map |-> 0, ports |-> 0],
     supplied |-> NoKeys]

(* The ports the handle's descriptor declares.                             *)
DeclaredPorts(h, H) == h[H.descriptor.off].val.ports

IsAudio(data) == data.tag \in {"AudioInput", "AudioOutput"}

PortDataLenient(kind, data_location) ==
    IF kind \in {"AudioInput", "AudioOutput"}
    THEN Some([tag |-> kind, ptr |-> data_location, len |-> 0])
    ELSE IF kind = "ControlOutput"
         THEN Some([tag |-> kind, ptr |-> data_location, len |-> 1])
         ELSE Some([tag |-> "ControlInput", ptr |-> data_location, len |-> 1])

(* match port.desc { .. }: the typed view of data_location; an audio view  *)
(* is a slice of length 0, a control view a reference to one value.        *)
PortData(kind, data_location) ==
    CASE kind = "AudioInput"    -> Some([tag |-> "AudioInput", ptr |-> data_location, len |-> 0])
      [] kind = "AudioOutput"   -> Some([tag |-> "AudioOutput", ptr |-> data_location, len |-> 0])
      [] kind = "ControlInput"  -> Some([tag |-> "ControlInput", ptr |-> data_location, len |-> 1])
      [] kind = "ControlOutput" -> Some([tag |-> "ControlOutput", ptr |-> data_location, len |-> 1])
      [] OTHER                  -> None

InsertIfAbsent(pm, k, conn) ==
    [i \in DOMAIN pm \cup {k} |-> IF i \in DOMAIN pm THEN pm[i] ELSE conn]

(* handle.port_map.insert(port_num, conn)                                  *)
Insert(pm, k, conn) ==
    [i \in DOMAIN pm \cup {k} |-> IF i = k THEN conn ELSE pm[i]]

CollectPortsReversed(pm) ==
    [j \in 1..Cardinality(DOMAIN pm) |-> Cardinality(DOMAIN pm) - j]

(* (0..handle.port_map.len()).map(|i| &handle.port_map[i]).collect()       *)
CollectPorts(pm) == [j \in 1..Cardinality(DOMAIN pm) |-> j - 1]

RebuildPortsAlways(pm, declared, ports) == CollectPorts(pm)

(* if handle.port_map.len() == handle.descriptor.ports.len() { .. }        *)
RebuildPorts(pm, declared, ports) ==
    IF Cardinality(DOMAIN pm) = Len(declared) THEN CollectPorts(pm) ELSE ports

RunViewAll(data, sample_count) == [data EXCEPT !.len = sample_count]

RunViewCached(data, sample_count) ==
    IF IsAudio(data) /\ data.len = 0 THEN [data EXCEPT !.len = sample_count] ELSE data

(* The view run leaves in one connection.                                  *)
RunView(data, sample_count) ==
    IF IsAudio(data) THEN [data EXCEPT !.len = sample_count] ELSE data

(* for (_, port) in handle.port_map.iter_mut() { .. }                      *)
RunViews(pm, sample_count) ==
    [k \in DOMAIN pm |-> [pm[k] EXCEPT !.data = RunView(@, sample_count)]]

(* handle.ports.as_slice(), each reference followed.                       *)
PortsSeen(H) == [j \in 1..Len(H.ports) |-> H.port_map[H.ports[j]]]

CleanupFreesWithBuffers(H, instance) ==
    [j \in 1..Len(H.ports) |-> H.port_map[H.ports[j]].data.ptr]
        \o << H.plugin, instance >>

CleanupFreesDescriptor(H, instance) == << H.plugin, H.descriptor, instance >>

CleanupFreesRecordOnly(H, instance) == << instance >>

(* The pointers cleanup frees, in order: the plugin box when the Handle    *)
(* is dropped, then the Handle record.                                     *)
CleanupFrees(H, instance) == << H.plugin, instance >>

(* The Handle after drop(ptr::read(handle)) and free(instance): the map    *)
(* and the vector are dropped and hold nothing any more, and of the freed  *)
(* record only the accounting remains.                                     *)
CleanupDrops(H) ==
    [H EXCEPT !.live = FALSE,
              !.descriptor = NULL,
              !.port_map = NoKeys,
              !.ports = <<>>,
              !.supplied = NoKeys,
              !.dropped = [port_map |-> @.port_map + 1, ports |-> @.ports + 1]]

----------------------------------------------------------------------------
(* The state after the library is loaded.                                  *)

NoCall == [op |-> "none"]

InitWith(catalogs) ==
    /\ catalog \in catalogs
    /\ init_done = FALSE
    /\ num_descriptors = 0
    /\ descriptors = None
    /\ heap = <<>>
    /\ instances = <<>>
    /\ atexit_handlers = 0
    /\ free_log = <<>>
    /\ handles = NoKeys
    /\ aborted = FALSE
    /\ exited = FALSE
    /\ ub = {}
    /\ returned = NoKeys
    /\ probe = 0
    /\ last = NoCall

Catalogs == [exhausts : {TRUE}, size : 0..MaxCatalog]
EnumCatalogs == [exhausts : {TRUE}, size : 0..MaxEnumCatalog]
                    \cup {[exhausts |-> FALSE, size |-> 0]}

Init == InitWith(Catalogs)
InitEnum == InitWith(EnumCatalogs)

Running == ~aborted /\ ~exited

(* The descriptor pointers the host holds, and its live handles.           *)
HostDescriptors == UNION {returned[i] : i \in DOMAIN returned}
LiveHandles == {a \in DOMAIN handles : handles[a].live}

(* The effect of one ladspa_descriptor(index) call on the state.           *)
CallDescriptor(index) ==
    LET r == ladspa_descriptor(Registry, index)
    IN /\ init_done' = r.reg.init_done
       /\ num_descriptors' = r.reg.num_descriptors
       /\ descriptors' = r.reg.descriptors
       /\ heap' = r.reg.heap
       /\ atexit_handlers' = r.reg.atexit_handlers
       /\ ub' = r.reg.ub
       /\ aborted' = r.panic
       /\ returned' =
            IF r.ret = NULL \/ r.panic
            THEN returned
            ELSE [i \in DOMAIN returned \cup {index} |->
                    IF i = index
                    THEN (IF i \in DOMAIN returned THEN returned[i] ELSE {}) \cup {r.ret}
                    ELSE returned[i]]
       /\ last' = [op |-> "ladspa_descriptor", index |-> index,
                   ret |-> IF r.panic THEN NULL ELSE r.ret, panic |-> r.panic]

(* The host asks for any index.                                            *)
LadspaDescriptor ==
    \E index \in 0..MaxIndex :
        /\ Running
        /\ CallDescriptor(index)
        /\ UNCHANGED <<catalog, instances, free_log, handles, exited, probe>>

(* The host enumerates: index 0, 1, 2, ... until the answer is null.       *)
Probe ==
    /\ Running
    /\ probe <= MaxProbe
    /\ ~(last.op = "ladspa_descriptor" /\ last.ret = NULL)
    /\ CallDescriptor(probe)
    /\ probe' = probe + 1
    /\ UNCHANGED <<catalog, instances, free_log, handles, exited>>

(* The process exits: the atexit handlers run.                             *)
ProcessExit ==
    /\ Running
    /\ LET freed == RunAtExit(atexit_handlers, Registry)
       IN /\ heap' = FreeAll(heap, "heap", freed)
          /\ instances' = FreeAll(instances, "inst", freed)
          /\ free_log' = free_log \o freed
    /\ exited' = TRUE
    /\ last' = [op |-> "exit"]
    /\ UNCHANGED <<catalog, init_done, num_descriptors, descriptors,
                   atexit_handlers, handles, aborted, ub, returned, probe>>

registry_vars == <<catalog, init_done, num_descriptors, descriptors,
                   atexit_handlers, exited, ub, returned, probe>>

(* instantiate(descriptor, sample_rate): the constructor of the retained   *)
(* plugin description makes the plugin logic, then the Handle is           *)
(* allocated and written.  The host holds one instance at a time.          *)
Instantiate ==
    \E descriptor \in HostDescriptors, sample_rate \in SampleRates :
        /\ Running
        /\ LiveHandles = {}
        /\ Cardinality(DOMAIN handles) < MaxInstantiations
        /\ LET rust_desc == heap[descriptor.off].val.implementation_data
               rust_plugin == InstPtr(Len(instances) + 1)
               h1 == Alloc(instances, Block("plugin", [sample_rate |-> sample_rate]))
               handle == InstPtr(Len(h1) + 1)
           IN /\ instances' = Alloc(h1, Block("handle", 0))
              /\ handles' = Insert(handles, handle.off, NewHandle(rust_desc, rust_plugin))
              /\ last' = [op |-> "instantiate", descriptor |-> descriptor,
                          ret |-> handle, plugin_call |-> "new"]
        /\ UNCHANGED <<registry_vars, heap, free_log, aborted>>

(* connect_port(instance, port_num, data_location)                         *)
ConnectPort ==
    \E a \in LiveHandles, port_num \in 0..MaxPortNum, data_location \in HostBufs :
        /\ Running
        /\ LET H == handles[a]
               declared == DeclaredPorts(heap, H)
               inside == port_num < Len(declared)
               port == declared[port_num + 1]
               data == IF inside THEN PortData(port.desc, data_location) ELSE None
               pm == Insert(H.port_map, port_num, [port |-> port, data |-> data.val])
           IN IF ~inside \/ ~data.some
              THEN \* the index is out of bounds, or "Invalid port descriptor!"
                   /\ aborted' = TRUE
                   /\ handles' = handles
                   /\ last' = [op |-> "connect_port", instance |-> InstPtr(a),
                               port_num |-> port_num,
                               data_location |-> data_location, panic |-> TRUE,
                               replaced |-> FALSE]
              ELSE /\ aborted' = aborted
                   /\ handles' =
                        [handles EXCEPT ![a] =
                            [H EXCEPT !.port_map = pm,
                                      !.ports = RebuildPorts(pm, declared, H.ports),
                                      !.supplied = Insert(@, port_num, data_location)]]
                   /\ last' = [op |-> "connect_port", instance |-> InstPtr(a),
                               port_num |-> port_num,
                               data_location |-> data_location, panic |-> FALSE,
                               replaced |-> port_num \in DOMAIN H.port_map]
        /\ UNCHANGED <<registry_vars, heap, instances, free_log>>

(* run(instance, sample_count); rederived records that a view still had   *)
(* the length of an earlier run with another sample count.                 *)
Run ==
    \E a \in LiveHandles, sample_count \in SampleCounts :
        /\ Running
        /\ LET H2 == [handles[a] EXCEPT !.port_map = RunViews(@, sample_count)]
           IN /\ handles' = [handles EXCEPT ![a] = H2]
              /\ last' = [op |-> "run", instance |-> InstPtr(a),
                          sample_count |-> sample_count,
                          rederived |->
                              \E k \in DOMAIN handles[a].port_map :
                                  /\ IsAudio(handles[a].port_map[k].data)
                                  /\ handles[a].port_map[k].data.len
                                        \notin {0, sample_count},
                          plugin_call |-> "run", plugin_ports |-> PortsSeen(H2)]
        /\ UNCHANGED <<registry_vars, heap, instances, free_log, aborted>>

ActivateResetsViews ==
    \E a \in LiveHandles :
        /\ Running
        /\ handles' = [handles EXCEPT ![a].port_map = RunViews(@, 0)]
        /\ last' = [op |-> "activate", instance |-> InstPtr(a),
                    plugin_call |-> "activate"]
        /\ UNCHANGED <<registry_vars, heap, instances, free_log, aborted>>

(* activate(instance)                                                      *)
Activate ==
    \E a \in LiveHandles :
        /\ Running
        /\ last' = [op |-> "activate", instance |-> InstPtr(a),
                    plugin_call |-> "activate"]
        /\ UNCHANGED <<registry_vars, heap, instances, free_log, handles, aborted>>

(* deactivate(instance)                                                    *)
Deactivate ==
    \E a \in LiveHandles :
        /\ Running
        /\ last' = [op |-> "deactivate", instance |-> InstPtr(a),
                    plugin_call |-> "deactivate"]
        /\ UNCHANGED <<registry_vars, heap, instances, free_log, handles, aborted>>

(* cleanup(instance)                                                       *)
Cleanup ==
    \E a \in LiveHandles :
        /\ Running
        /\ LET freed == CleanupFrees(handles[a], InstPtr(a))
           IN /\ heap' = FreeAll(heap, "heap", freed)
              /\ instances' = FreeAll(instances, "inst", freed)
              /\ free_log' = free_log \o freed
        /\ handles' = [handles EXCEPT ![a] = CleanupDrops(@)]
        /\ last' = [op |-> "cleanup", instance |-> InstPtr(a),
                    connected |-> Cardinality(DOMAIN handles[a].port_map)]
        /\ UNCHANGED <<registry_vars, aborted>>

Next ==
    \/ LadspaDescriptor
    \/ ProcessExit
    \/ Instantiate
    \/ ConnectPort
    \/ Run
    \/ Activate
    \/ Deactivate
    \/ Cleanup

Spec == Init /\ [][Next]_vars

NextEnum == Probe

SpecEnum == InitEnum /\ [][NextEnum]_vars /\ WF_vars(Probe)

----------------------------------------------------------------------------
(* The claims.                                                             *)

DescriptorCall == last.op = "ladspa_descriptor" /\ ~last.panic

(* The descriptors built so far from catalog entry i.                      *)
BuiltFor(i) ==
    {a \in DOMAIN heap : /\ heap[a].kind = "descriptor"
                         /\ heap[a].val.unique_id = PluginAt(i).unique_id}

(* C1: any two ladspa_descriptor calls with the same index that return a   *)
(* non-null pointer return the same pointer, and no index has a second     *)
(* descriptor built for it, whatever the order of the indices.             *)
C1_SameIndexSamePointer ==
    /\ \A i \in DOMAIN returned : Cardinality(returned[i]) <= 1
    /\ \A i \in 0..MaxIndex : Cardinality(BuiltFor(i)) <= 1

(* C2: a non-null pointer returned for index i designates the descriptor   *)
(* marshaled from catalog entry i: its unique_id and its retained          *)
(* original descriptor are those of the catalog's entry i.                 *)
C2_PointerDesignatesCatalogEntry ==
    \A i \in DOMAIN returned : \A p \in returned[i] :
        /\ heap[p.off].val.unique_id = PluginAt(i).unique_id
        /\ heap[heap[p.off].val.implementation_data.off].val = PluginAt(i)

(* C3: ladspa_descriptor returns null for every index the catalog has no   *)
(* plugin for, whatever lookups were made before.                          *)
C3_NullBeyondCatalog ==
    (DescriptorCall /\ ~get_ladspa_descriptor(last.index).some) => last.ret = NULL

(* A null answer after out-of-order lookups that built a descriptor twice. *)
C3_Witness ==
    /\ DescriptorCall
    /\ ~get_ladspa_descriptor(last.index).some
    /\ last.ret = NULL
    /\ num_descriptors >= 2
    /\ \E i \in DOMAIN returned : Cardinality(returned[i]) >= 2

(* C4: a catalog of at most MAX_DESCRIPTORS plugins, the full 32 included, *)
(* is enumerated by the host without the fatal abort.                      *)
C4_FullCatalogEnumerates ==
    (catalog.exhausts /\ catalog.size <= MAX_DESCRIPTORS) => ~aborted

(* C5: with a catalog that never reports exhaustion the enumerating host   *)
(* always reaches the fatal abort; and in every state num_descriptors is   *)
(* at most MAX_DESCRIPTORS and no pointer was written outside the table.   *)
C5_NeverExhaustedAborts ==
    /\ (~catalog.exhausts) ~> aborted
    /\ [](num_descriptors <= MAX_DESCRIPTORS /\ ub = {})

(* The abort, reached with the catalog that never ends.                    *)
C5_Witness ==
    /\ ~catalog.exhausts
    /\ aborted
    /\ num_descriptors = MAX_DESCRIPTORS

(* C6: once global_destruct has run at exit, every block ladspa_descriptor *)
(* allocated has been freed exactly once; before it, none has been freed.  *)
C6_RegistryFreedExactlyOnce ==
    /\ exited => \A a \in DOMAIN heap : heap[a].frees = 1
    /\ ~exited => \A a \in DOMAIN heap : heap[a].frees = 0

(* The exit after two descriptors with ports were built.                   *)
C6_Witness ==
    /\ exited
    /\ num_descriptors >= 2
    /\ \E a \in DOMAIN heap : heap[a].kind = "table" /\ heap[a].frees = 1
    /\ Cardinality({a \in DOMAIN heap : heap[a].kind = "c_str"}) >= 12

IsComplete(H) == DOMAIN H.port_map = 0..(Len(DeclaredPorts(heap, H)) - 1)

(* C7: when every one of the N declared ports of a handle has been         *)
(* connected, in whatever order, the ordered port list has N entries and   *)
(* entry i is the connection stored for port number i.                     *)
C7_PortsOrdered ==
    \A a \in LiveHandles :
        LET H == handles[a]
            declared == DeclaredPorts(heap, H)
        IN IsComplete(H) =>
             /\ Len(H.ports) = Len(declared)
             /\ \A i \in 0..(Len(declared) - 1) :
                  /\ H.ports[i + 1] = i
                  /\ PortsSeen(H)[i + 1].port = declared[i + 1]
                  /\ PortsSeen(H)[i + 1].data.ptr = H.supplied[i]

(* A handle of three ports whose last port to be connected was port 0.     *)
C7_Witness ==
    /\ last.op = "connect_port" /\ ~last.panic /\ ~last.replaced
    /\ last.port_num = 0
    /\ \E a \in LiveHandles :
         /\ last.instance = InstPtr(a)
         /\ IsComplete(handles[a])
         /\ Len(handles[a].ports) = 3

(* C8: a connect_port on a port that is already connected puts a           *)
(* connection of the declared kind, based at the new address, in that      *)
(* port's slot and changes neither another port's connection nor the       *)
(* length of the ordered port list.                                        *)
C8_ReconnectOneSlot ==
    [][\A a \in DOMAIN handles :
         (/\ last'.op = "connect_port"
          /\ last'.instance = InstPtr(a)
          /\ last'.replaced)
         => LET H == handles[a]
                H2 == handles'[a]
                k == last'.port_num
            IN /\ DOMAIN H2.port_map = DOMAIN H.port_map
               /\ H2.port_map[k].data.ptr = last'.data_location
               /\ H2.port_map[k].data.tag = H.port_map[k].data.tag
               /\ H2.port_map[k].port = H.port_map[k].port
               /\ \A j \in DOMAIN H.port_map \ {k} : H2.port_map[j] = H.port_map[j]
               /\ Len(H2.ports) = Len(H.ports)]_vars

(* A reconnect between runs, to another address, of a complete handle.     *)
C8_Witness ==
    /\ last.op = "connect_port" /\ last.replaced
    /\ \E a \in LiveHandles :
         LET H == handles[a]
         IN /\ last.instance = InstPtr(a)
            /\ IsComplete(H)
            /\ \E j \in DOMAIN H.port_map \ {last.port_num} :
                    H.port_map[j].data.len = 128
            /\ \E j \in DOMAIN H.port_map \ {last.port_num} :
                    H.port_map[j].data.ptr # last.data_location

(* C9: when run(handle, n) calls the plugin logic, every connected audio   *)
(* view, in the port map and in the list the plugin is given, has length   *)
(* n and is based at the address connect_port got last for that port.      *)
C9_RunViews ==
    last.op = "run" =>
      LET H == handles[last.instance.off]
      IN /\ \A k \in DOMAIN H.port_map :
              /\ H.port_map[k].data.ptr = H.supplied[k]
              /\ IsAudio(H.port_map[k].data)
                   => H.port_map[k].data.len = last.sample_count
         /\ \A j \in DOMAIN last.plugin_ports :
              /\ last.plugin_ports[j].data.ptr = H.supplied[j - 1]
              /\ IsAudio(last.plugin_ports[j].data)
                   => last.plugin_ports[j].data.len = last.sample_count

(* A run of 64 samples after a run of 128, of a complete handle one of    *)
(* whose ports was reconnected to another address after it was complete.   *)
C9_Witness ==
    /\ last.op = "run"
    /\ last.sample_count = 64
    /\ last.rederived
    /\ Len(last.plugin_ports) = 3
    /\ \E j, k \in DOMAIN last.plugin_ports :
          last.plugin_ports[j].data.ptr # last.plugin_ports[k].data.ptr

(* C10: the plugin logic, the port map and the Handle record of a handle   *)
(* are released by cleanup, each exactly once, and by nothing else: none   *)
(* of them is released while the handle is live.                           *)
C10_CleanupReleasesOnce ==
    \A a \in DOMAIN handles :
        LET H == handles[a]
            n == IF H.live THEN 0 ELSE 1
        IN /\ instances[a].kind = "handle" /\ instances[a].frees = n
           /\ H.plugin.space = "inst"
           /\ instances[H.plugin.off].kind = "plugin"
           /\ instances[H.plugin.off].frees = n
           /\ H.dropped.port_map = n
           /\ H.dropped.ports = n

(* The cleanup of a handle with all its ports connected.                   *)
C10_Witness ==
    /\ last.op = "cleanup"
    /\ last.connected = 3
    /\ ~handles[last.instance.off].live
    /\ ~exited

(* C11: the bridge never frees a buffer the host passed to connect_port,   *)
(* and never allocates one: no freed address is a host buffer, every       *)
(* connection is based at the host's own address, and every block the      *)
(* bridge allocated is one of its own kinds.                               *)
C11_HostBuffersNeverFreed ==
    /\ \A k \in DOMAIN free_log : free_log[k] \notin HostBufs
    /\ \A k \in DOMAIN free_log : free_log[k].space \in {"heap", "inst"}
    /\ \A a \in DOMAIN handles : \A k \in DOMAIN handles[a].port_map :
          /\ handles[a].port_map[k].data.ptr \in HostBufs
          /\ handles[a].port_map[k].data.ptr = handles[a].supplied[k]
    /\ \A a \in DOMAIN instances : instances[a].kind \in {"plugin", "handle"}

(* The cleanup of a handle all of whose three ports were connected.        *)
C11_Witness ==
    /\ last.op = "cleanup"
    /\ last.connected = 3
    /\ Len(free_log) = 2
    /\ free_log[2] = last.instance

(* The bytes a reader of the C string in block bytes gets: those before    *)
(* the first 0; a string without a terminator is read past its end.        *)
ReadCStr(bytes) ==
    LET zeros == {k \in DOMAIN bytes : bytes[k] = 0}
    IN IF zeros = {}
       THEN Append(bytes, -1)
       ELSE SubSeq(bytes, 1, (CHOOSE k \in zeros : \A z \in zeros : k <= z) - 1)

(* The port kind a LADSPA_PortDescriptor bitset stands for.                *)
KindOfBits(bits) ==
    IF bits = PORT_AUDIO + PORT_INPUT THEN "AudioInput"
    ELSE IF bits = PORT_AUDIO + PORT_OUTPUT THEN "AudioOutput"
    ELSE IF bits = PORT_CONTROL + PORT_INPUT THEN "ControlInput"
    ELSE IF bits = PORT_CONTROL + PORT_OUTPUT THEN "ControlOutput"
    ELSE "Invalid"

(* What a host reads back from the descriptor record at block a: the port  *)
(* count and, per port, the kind and the name.                             *)
ReadBack(a) ==
    LET desc == heap[a].val
    IN [port_count |-> desc.port_count,
        kinds |-> [i \in 1..desc.port_count |->
                      KindOfBits(heap[desc.port_descriptors.off].val[i])],
        names |-> [i \in 1..desc.port_count |->
                      ReadCStr(heap[heap[desc.port_names.off].val[i].off].val)]]

DescriptorRecords == {a \in DOMAIN heap : heap[a].kind = "descriptor"}

(* The catalog index the descriptor at block a was built from.             *)
BuiltFrom(a) ==
    CHOOSE i \in 0..MaxProbe : PluginAt(i).unique_id = heap[a].val.unique_id

(* C12: every descriptor built reads back with the port count, the port    *)
(* kinds and the port names of the plugin description it was built from.   *)
C12_MarshalRoundTrip ==
    \A a \in DescriptorRecords :
        LET ports == PluginAt(BuiltFrom(a)).ports
            back == ReadBack(a)
        IN /\ back.port_count = Len(ports)
           /\ back.kinds = [i \in 1..Len(ports) |-> ports[i].desc]
           /\ back.names = [i \in 1..Len(ports) |-> ports[i].name]

(* A descriptor of one audio input and one audio output port was built.    *)
C12_Witness ==
    \E a \in DescriptorRecords :
        /\ ReadBack(a).port_count = 2
        /\ ReadBack(a).kinds = << "AudioInput", "AudioOutput" >>
        /\ ReadBack(a).names = << <<105, 110>>, <<111, 117, 116>> >>

HandleOps == {"instantiate", "connect_port", "activate", "run", "deactivate", "cleanup"}

(* C13: no call on a handle (instantiate, connect_port, activate, run,     *)
(* deactivate, cleanup) frees or changes a block of the registry, only the *)
(* exit does; so until the exit every pointer ladspa_descriptor returned   *)
(* designates a descriptor none of whose blocks was freed.                 *)
C13_RegistryOutlivesHandles ==
    /\ [][/\ last'.op \in HandleOps => heap' = heap
          /\ (\E a \in DOMAIN heap : heap'[a].frees # heap[a].frees)
                => last'.op = "exit"]_vars
    /\ [](~exited =>
            /\ \A p \in HostDescriptors :
                  /\ p.space = "heap" /\ p.off \in DescriptorRecords
                  /\ heap[p.off].val.implementation_data.off \in DOMAIN heap
            /\ \A a \in DOMAIN heap : heap[a].frees = 0)

(* A handle was made from a returned descriptor, connected and cleaned up, *)
(* and the descriptor is still there.                                      *)
C13_Witness ==
    /\ last.op = "cleanup"
    /\ last.connected >= 1
    /\ ~exited
    /\ HostDescriptors # {}
    /\ \A p \in HostDescriptors : heap[p.off].frees = 0

(* The place of pointer p in the sequence of frees (0: not freed).         *)
FreedAt(p) ==
    IF \E k \in DOMAIN free_log : free_log[k] = p
    THEN CHOOSE k \in DOMAIN free_log : free_log[k] = p
    ELSE 0

(* The strings and per-port arrays of the descriptor record at block a,    *)
(* and its port-name strings.                                              *)
NameStrings(a) ==
    {heap[heap[a].val.port_names.off].val[i] : i \in 1..heap[a].val.port_count}

StringsAndArrays(a) ==
    LET desc == heap[a].val
    IN {desc.label, desc.name, desc.maker, desc.copyright,
        desc.port_descriptors, desc.port_names, desc.port_range_hints}
       \cup NameStrings(a)

FreedRecords == {a \in DescriptorRecords : FreedAt(HeapPtr(a)) > 0}

(* The strings and per-port arrays are freed before the record, and each   *)
(* port-name string before the port-name array.                            *)
InnerFreedFirst(a) ==
    /\ \A p \in StringsAndArrays(a) :
          FreedAt(p) > 0 /\ FreedAt(p) < FreedAt(HeapPtr(a))
    /\ \A p \in NameStrings(a) : FreedAt(p) < FreedAt(heap[a].val.port_names)

(* C14, as claimed: of a descriptor the finalizer freed, the strings and   *)
(* per-port arrays were freed before the record, each port-name string     *)
(* before the port-name array, and the retained original descriptor last   *)
(* of all its allocations.                                                 *)
C14_RetainedOriginalFreedLast ==
    \A a \in FreedRecords :
        /\ InnerFreedFirst(a)
        /\ \A p \in StringsAndArrays(a) \cup {HeapPtr(a)} :
              FreedAt(p) < FreedAt(heap[a].val.implementation_data)

(* C14, amended: of a descriptor the finalizer freed, the strings and      *)
(* per-port arrays were freed before the record, each port-name string     *)
(* before the port-name array, the retained original descriptor after      *)
(* them, and the record last of all its allocations, right after the       *)
(* retained original descriptor.                                           *)
C14_RecordFreedLast ==
    \A a \in FreedRecords :
        /\ InnerFreedFirst(a)
        /\ \A p \in StringsAndArrays(a) :
              FreedAt(p) < FreedAt(heap[a].val.implementation_data)
        /\ FreedAt(HeapPtr(a)) = FreedAt(heap[a].val.implementation_data) + 1

(* The exit freed a descriptor of three ports.                             *)
C14_Witness ==
    /\ last.op = "exit"
    /\ \E a \in FreedRecords : heap[a].val.port_count = 3

Tables(h) == {a \in DOMAIN h : h[a].kind = "table"}

(* C15: the table is allocated and global_destruct registered exactly      *)
(* once, in the first ladspa_descriptor call ever, whether or not it       *)
(* builds a descriptor: before the first call there is neither, after any  *)
(* call there is one of each, and no later step adds or replaces one.      *)
C15_InitialisedOnce ==
    /\ [](/\ atexit_handlers = (IF init_done THEN 1 ELSE 0)
          /\ Cardinality(Tables(heap)) = atexit_handlers
          /\ descriptors.some = init_done
          /\ descriptors.some => descriptors.val.off \in Tables(heap)
          /\ last.op = "ladspa_descriptor" => init_done
          /\ last.op = "none" => ~init_done)
    /\ [][/\ last'.op # "ladspa_descriptor" => init_done' = init_done
          /\ init_done => /\ init_done'
                          /\ descriptors' = descriptors
                          /\ atexit_handlers' = atexit_handlers
                          /\ Tables(heap') = Tables(heap)]_vars

(* After calls that built two descriptors, a call that built none: there   *)
(* is still the one table and the one registration.                        *)
C15_Witness ==
    /\ last.op = "ladspa_descriptor" /\ last.ret = NULL
    /\ num_descriptors >= 2
    /\ Tables(heap) = {1}
    /\ atexit_handlers = 1

(* C16: run(handle, n) changes nothing of the handle but the lengths of    *)
(* its audio views, which become n: the connected port numbers, the port,  *)
(* kind and address of every connection, every control connection and the  *)
(* ordered port list stay as they were; the plugin's run is called with n  *)
(* and the connections the ordered list refers to.                         *)
C16_RunChangesAudioLengthsOnly ==
    [][\A a \in DOMAIN handles :
         (last'.op = "run" /\ last'.instance = InstPtr(a))
         => LET H == handles[a]
                H2 == handles'[a]
            IN /\ DOMAIN H2.port_map = DOMAIN H.port_map
               /\ \A k \in DOMAIN H.port_map :
                    /\ H2.port_map[k].port = H.port_map[k].port
                    /\ H2.port_map[k].data.tag = H.port_map[k].data.tag
                    /\ H2.port_map[k].data.ptr = H.port_map[k].data.ptr
                    /\ ~IsAudio(H.port_map[k].data)
                         => H2.port_map[k] = H.port_map[k]
                    /\ IsAudio(H.port_map[k].data)
                         => H2.port_map[k].data.len = last'.sample_count
               /\ H2.ports = H.ports
               /\ [H2 EXCEPT !.port_map = H.port_map] = H
               /\ \A b \in DOMAIN handles \ {a} : handles'[b] = handles[b]
               /\ last'.plugin_call = "run"
               /\ Len(last'.plugin_ports) = Len(H.ports)
               /\ \A j \in DOMAIN H.ports :
                    last'.plugin_ports[j] = H2.port_map[H.ports[j]]]_vars

(* A run of 128 samples of a handle with two control ports and an audio    *)
(* port, all connected.                                                    *)
C16_Witness ==
    /\ last.op = "run"
    /\ last.sample_count = 128
    /\ Len(last.plugin_ports) = 3
    /\ last.plugin_ports[1].data.tag = "ControlInput"
    /\ last.plugin_ports[1].data.len = 1
    /\ last.plugin_ports[2].data.len = 128
    /\ last.plugin_ports[3].data.tag = "ControlOutput"

(* C17: activate and deactivate call the plugin's hook of the same name    *)
(* and change nothing else, neither a handle nor the registry nor an       *)
(* allocation; and run can be called on a live handle in every state,      *)
(* after an activate, after a deactivate or with neither.                  *)
C17_ActivatePassThrough ==
    /\ [][last'.op \in {"activate", "deactivate"}
            => /\ last'.plugin_call = last'.op
               /\ last'.instance.off \in LiveHandles
               /\ handles' = handles
               /\ heap' = heap
               /\ instances' = instances
               /\ free_log' = free_log
               /\ registry_vars' = registry_vars
               /\ aborted' = aborted]_vars
    /\ []((Running /\ LiveHandles # {}) => ENABLED Run)

(* A deactivate of a complete handle that has run 64 samples.              *)
C17_Witness ==
    /\ last.op = "deactivate"
    /\ \E a \in LiveHandles :
         /\ last.instance = InstPtr(a)
         /\ IsComplete(handles[a])
         /\ \E k \in DOMAIN handles[a].port_map :
               handles[a].port_map[k].data.len = 64

(* C18: the ordered port list of a live handle with N declared ports is    *)
(* empty as long as fewer than N distinct port numbers are connected and   *)
(* has N entries once all are, so its length is 0 or N; a run before that  *)
(* hands the plugin an empty list.                                         *)
C18_PortsEmptyUntilComplete ==
    /\ \A a \in LiveHandles :
         LET H == handles[a]
             N == Len(DeclaredPorts(heap, H))
             connected == Cardinality(DOMAIN H.port_map)
         IN /\ N > 0
            /\ Len(H.ports) \in {0, N}
            /\ connected <= N
            /\ connected < N => H.ports = <<>>
            /\ connected = N => Len(H.ports) = N
    /\ (last.op = "run" /\ last.instance.off \in LiveHandles
          /\ ~IsComplete(handles[last.instance.off]))
         => last.plugin_ports = <<>>

(* A run of a handle two of whose three ports are connected: the plugin    *)
(* got an empty list.                                                      *)
C18_Witness ==
    /\ last.op = "run"
    /\ last.plugin_ports = <<>>
    /\ \E a \in LiveHandles :
         /\ last.instance = InstPtr(a)
         /\ Len(DeclaredPorts(heap, handles[a])) = 3
         /\ Cardinality(DOMAIN handles[a].port_map) = 2
         /\ \E j, k \in DOMAIN handles[a].port_map :
               handles[a].port_map[j].data.ptr # handles[a].port_map[k].data.ptr

(* C19: a connect_port whose port number is not below the number of the    *)
(* declared ports, or whose port is declared Invalid, ends in the fatal    *)
(* state and leaves every handle as it was: nothing is inserted or         *)
(* replaced in the port map and the ordered port list is not rebuilt.      *)
C19_BadConnectAbortsFirst ==
    [][\A a \in DOMAIN handles :
         LET declared == DeclaredPorts(heap, handles[a])
             k == last'.port_num
         IN (/\ last'.op = "connect_port"
             /\ last'.instance = InstPtr(a)
             /\ \/ k >= Len(declared)
                \/ declared[k + 1].desc = "Invalid")
            => /\ aborted'
               /\ last'.panic
               /\ handles' = handles]_vars

(* The abort of a connect_port on the Invalid port of a handle whose other *)
(* port is connected.                                                      *)
C19_Witness ==
    /\ last.op = "connect_port" /\ last.panic /\ aborted
    /\ LET H == handles[last.instance.off]
       IN /\ last.port_num < Len(DeclaredPorts(heap, H))
          /\ DeclaredPorts(heap, H)[last.port_num + 1].desc = "Invalid"
          /\ DOMAIN H.port_map = {0}
          /\ Len(H.ports) = 0

(* C20: a ladspa_descriptor call that returns null, or a pointer to a      *)
(* descriptor that was there before the call, leaves num_descriptors,      *)
(* the table and every allocation as they were, but for the table the      *)
(* first call ever allocates and the handler it registers.                 *)
C20_NullOrCachedChangesNothing ==
    [][(/\ last'.op = "ladspa_descriptor"
        /\ ~last'.panic
        /\ \/ last'.ret = NULL
           \/ last'.ret.space = "heap" /\ last'.ret.off \in DOMAIN heap)
       => /\ num_descriptors' = num_descriptors
          /\ ub' = ub
          /\ init_done => /\ heap' = heap
                          /\ descriptors' = descriptors
                          /\ atexit_handlers' = atexit_handlers
          /\ ~init_done => /\ heap' = << Block("table", EmptyTable) >>
                           /\ descriptors' = Some(HeapPtr(1))
                           /\ atexit_handlers' = 1]_vars

(* A null answer past the end of a catalog both of whose plugins are       *)
(* built.                                                                  *)
C20_Witness ==
    /\ last.op = "ladspa_descriptor" /\ ~last.panic
    /\ last.ret = NULL
    /\ last.index >= catalog.size
    /\ catalog.size = 2
    /\ Cardinality(DescriptorRecords) >= 2

====
